---- MODULE Spec2Model ----
(***************************************************************************)
(* Model of the scripts of blue-banded-bee.                                *)
(*  - scripts/aggregate_logs.py: incremental aggregation of per-file JSON  *)
(*    log summaries into time_series.csv, summary.md and the state file    *)
(*    .aggregate_state.json, run one invocation at a time (Spec), with the *)
(*    state file edited from outside (SpecTamper), or as the watch_mode    *)
(*    loop with its interrupt (SpecWatch); the Critical Patterns section   *)
(*    of the report on its own (SpecReport).                               *)
(*  - scripts/auth/cli_auth.py: the cached session and the commands        *)
(*    ensure and logout (SpecAuth); the browser login with its callback    *)
(*    server, handler threads and main thread step by step (SpecLogin).    *)
(*  - scripts/process_logs.py: summarise_logs reading a raw log line by    *)
(*    line (SpecSummarise).                                                *)
(* Strings that the code slices, splits, sorts or searches (timestamps,    *)
(* minute keys, CSV lines, message texts) are sequences of one-character   *)
(* strings.                                                                *)
(***************************************************************************)
EXTENDS Integers, Sequences, FiniteSets, TLC

\* ------------------------------------------------------------------ bounds
\* Number of aggregate_logs invocations explored (the clock stops there).
MaxRuns == 2

\* Number of watch_mode iterations explored.
MaxIterations == 3

\* Number of cli_auth commands explored, and of clock ticks between them.
MaxAuthCalls == 2

MaxTicks == 2

\* ------------------------------------------------------- program constants
STATE_FILE_NAME == ".aggregate_state.json"

\* timestamp[:16]
MinuteKeyLen == 16

\* "timestamp,samples,total_lines,info,warn,error,debug"
Header == <<"t","i","m","e","s","t","a","m","p",",","s","a","m","p","l","e","s",",","t","o","t","a","l","_","l","i","n","e","s",",","i","n","f","o",",","w","a","r","n",",","e","r","r","o","r",",","d","e","b","u","g">>

\* The four levels that have a CSV column, in column order.
CsvLevels == <<"info", "warn", "error", "debug">>

\* Level names seen in summaries ("unknown" is what process_logs.py emits
\* for a record without a level).
LevelNames == {"info", "warn", "error", "debug", "unknown"}

\* A JSON null where a message text is expected.
NullMessage == "<null>"

Messages == {"started job", "Deployment failed unexpectedly", NullMessage}

NoFile == [exists |-> FALSE]

\* --------------------------------------------------------- character data
\* Code points of the characters used, for str comparison in sorted().
Ord ==
  (" " :> 32) @@ ("+" :> 43) @@ ("," :> 44) @@ ("-" :> 45) @@ ("0" :> 48) @@
  ("1" :> 49) @@ ("2" :> 50) @@ ("3" :> 51) @@ ("4" :> 52) @@ ("5" :> 53) @@
  ("6" :> 54) @@ ("7" :> 55) @@ ("8" :> 56) @@ ("9" :> 57) @@ (":" :> 58) @@
  ("N" :> 78) @@ ("T" :> 84) @@ ("_" :> 95) @@ ("a" :> 97) @@ ("b" :> 98) @@
  ("d" :> 100) @@ ("e" :> 101) @@ ("f" :> 102) @@ ("g" :> 103) @@
  ("i" :> 105) @@ ("k" :> 107) @@ ("l" :> 108) @@ ("m" :> 109) @@
  ("n" :> 110) @@ ("o" :> 111) @@ ("p" :> 112) @@ ("r" :> 114) @@
  ("s" :> 115) @@ ("t" :> 116) @@ ("u" :> 117) @@ ("v" :> 118) @@ ("w" :> 119)

DigitChars == <<"0", "1", "2", "3", "4", "5", "6", "7", "8", "9">>

IsDigit(c) == \E d \in 1..10 : DigitChars[d] = c

DigitValue(c) == (CHOOSE d \in 1..10 : DigitChars[d] = c) - 1

\* Timestamps found as keys of level_counts / message_counts.
TsScenario == <<"2","0","2","5","-","1","1","-","0","5","T","0","7",":","5","0">>
Ts5010 == <<"2","0","2","5","-","1","1","-","0","5","T","0","7",":","5","0",":","1","0">>
Ts5040 == <<"2","0","2","5","-","1","1","-","0","5","T","0","7",":","5","0",":","4","0">>
Ts5110 == <<"2","0","2","5","-","1","1","-","0","5","T","0","7",":","5","1",":","1","0">>
Ts5210 == <<"2","0","2","5","-","1","1","-","0","5","T","0","7",":","5","2",":","1","0">>
TsShort == <<"u","n","k","n","o","w","n">>
TsComma == <<"N","o","v"," ","5",","," ","2","0","2","5"," ","0","7",":","5","0",":","0","0">>

\* ------------------------------------------------------- str / int helpers
Min(a, b) == IF a <= b THEN a ELSE b

\* s[:n]
Prefix(s, n) == SubSeq(s, 1, Min(Len(s), n))

\* minute_key = timestamp[:16]
MinuteKey(timestamp) == Prefix(timestamp, MinuteKeyLen)

\* Python's str < str: code point order from the first differing character,
\* a proper prefix sorts first.
RECURSIVE StrLessFrom(_, _, _)
StrLessFrom(a, b, i) ==
  IF i > Len(b) THEN FALSE
  ELSE IF i > Len(a) THEN TRUE
  ELSE IF a[i] # b[i] THEN Ord[a[i]] < Ord[b[i]]
  ELSE StrLessFrom(a, b, i + 1)

StrLess(a, b) == StrLessFrom(a, b, 1)

\* sorted(keys)
RECURSIVE SortedKeys(_)
SortedKeys(S) ==
  IF S = {} THEN <<>>
  ELSE LET m == CHOOSE x \in S : \A y \in S \ {x} : StrLess(x, y)
       IN <<m>> \o SortedKeys(S \ {m})

\* str(n) for an int, as f"{n}" renders it.
RECURSIVE StrNat(_)
StrNat(n) ==
  IF n < 10 THEN <<DigitChars[n + 1]>>
  ELSE StrNat(n \div 10) \o <<DigitChars[(n % 10) + 1]>>

StrInt(n) == IF n < 0 THEN <<"-">> \o StrNat(0 - n) ELSE StrNat(n)

\* str.strip() on a line without its newline: drops surrounding blanks.
RECURSIVE LStrip(_)
LStrip(s) == IF s # <<>> /\ Head(s) = " " THEN LStrip(Tail(s)) ELSE s

RECURSIVE RStrip(_)
RStrip(s) ==
  IF s # <<>> /\ s[Len(s)] = " " THEN RStrip(SubSeq(s, 1, Len(s) - 1)) ELSE s

Strip(s) == RStrip(LStrip(s))

\* str.split(','): the list of fields, at least one.
RECURSIVE SplitFrom(_, _, _)
SplitFrom(s, i, cur) ==
  IF i > Len(s) THEN <<cur>>
  ELSE IF s[i] = "," THEN <<cur>> \o SplitFrom(s, i + 1, <<>>)
  ELSE SplitFrom(s, i + 1, Append(cur, s[i]))

Split(s) == SplitFrom(s, 1, <<>>)

RECURSIVE DigitsValue(_, _)
DigitsValue(s, acc) ==
  IF s = <<>> THEN acc ELSE DigitsValue(Tail(s), acc * 10 + DigitValue(Head(s)))

AllDigits(s) == s # <<>> /\ \A i \in 1..Len(s) : IsDigit(s[i])

\* int(text): surrounding blanks and one sign are accepted, anything else
\* raises ValueError (ok = FALSE).
ParseInt(text) ==
  LET s == Strip(text)
      signed == s # <<>> /\ Head(s) \in {"-", "+"}
      body == IF signed THEN Tail(s) ELSE s
  IN IF AllDigits(body)
       THEN [ok |-> TRUE,
             val |-> IF signed /\ Head(s) = "-"
                       THEN 0 - DigitsValue(body, 0) ELSE DigitsValue(body, 0)]
       ELSE [ok |-> FALSE, val |-> 0]

\* ------------------------------------------------ the JSON summary files
Dict(items) == [dict |-> TRUE, items |-> items]

\* A JSON value that is not an object where {level: count} is expected.
NotADict == [dict |-> FALSE, items |-> <<>>]

InvalidJson ==
  [valid |-> FALSE, total_lines |-> 0, failed_to_parse |-> 0,
   level_counts |-> <<>>, message_counts |-> <<>>]

\* Content of the summary files that may be dropped into the directory.
\* level_counts and message_counts keep the key order of the JSON object.
Files ==
  ("a.json" :>
     [valid |-> TRUE, total_lines |-> 100, failed_to_parse |-> 2,
      level_counts |->
        << [ts |-> TsScenario, levels |-> Dict(<< <<"info", 5>>, <<"error", 1>> >>)] >>,
      message_counts |->
        << [ts |-> TsScenario,
            msgs |-> << [message |-> "started job", count |-> 5] >>] >>]) @@
  ("b.json" :>
     [valid |-> TRUE, total_lines |-> 7, failed_to_parse |-> 1,
      level_counts |->
        << [ts |-> Ts5010, levels |-> Dict(<< <<"info", 1>>, <<"warn", 2>> >>)],
           [ts |-> Ts5040, levels |-> Dict(<< <<"debug", 1>>, <<"unknown", 1>> >>)],
           [ts |-> Ts5110, levels |-> Dict(<< <<"error", 1>> >>)] >>,
      message_counts |->
        << [ts |-> TsShort,
            msgs |-> << [message |-> "Deployment failed unexpectedly", count |-> 3],
                        [message |-> "started job", count |-> 1] >>] >>]) @@
  ("bad.json" :> InvalidJson) @@
  ("comma.json" :>
     [valid |-> TRUE, total_lines |-> 10, failed_to_parse |-> 1,
      level_counts |->
        << [ts |-> TsComma, levels |-> Dict(<< <<"info", 1>> >>)] >>,
      message_counts |-> <<>>]) @@
  ("nullmsg.json" :>
     [valid |-> TRUE, total_lines |-> 4, failed_to_parse |-> 0,
      level_counts |->
        << [ts |-> Ts5010, levels |-> Dict(<< <<"info", 1>> >>)] >>,
      message_counts |->
        << [ts |-> Ts5010,
            msgs |-> << [message |-> NullMessage, count |-> 2] >>] >>]) @@
  ("shape.json" :>
     [valid |-> TRUE, total_lines |-> 10, failed_to_parse |-> 1,
      level_counts |->
        << [ts |-> Ts5010, levels |-> Dict(<< <<"info", 1>> >>)],
           [ts |-> Ts5110, levels |-> NotADict],
           [ts |-> Ts5210, levels |-> Dict(<< <<"info", 1>> >>)] >>,
      message_counts |-> <<>>])

FileNames == DOMAIN Files

\* Files that follow the schema: json.load and both passes run to the end.
WellFormed == {"a.json", "b.json", "comma.json"}

\* sorted(log_path.glob("*.json")): the names in path order.  The glob also
\* matches the state file, whose name ends in .json.
NameOrder ==
  <<STATE_FILE_NAME, "a.json", "b.json", "bad.json", "comma.json",
    "nullmsg.json", "shape.json">>

SortedNames(S) == SelectSeq(NameOrder, LAMBDA n : n \in S)

\* json.load of the state file seen as a summary: an object without meta,
\* level_counts or message_counts, so every .get() falls back to its default.
StateFileAsSummary ==
  [valid |-> TRUE, total_lines |-> 0, failed_to_parse |-> 0,
   level_counts |-> <<>>, message_counts |-> <<>>]

\* .aggregate_state.json; it matches *.json, so the listing and the passes
\* read it like a summary.
VARIABLE stateFile

\* A state file that is not JSON, and one that is JSON of another shape (the
\* object {}, without processed_files).
InvalidStateFile == [exists |-> TRUE, text |-> "not json"]
UnexpectedStateFile == [exists |-> TRUE, text |-> "{}"]

\* json.load of a listed file.
ReadJson(name) ==
  IF name = STATE_FILE_NAME
    THEN (IF stateFile = InvalidStateFile THEN InvalidJson ELSE StateFileAsSummary)
    ELSE Files[name]

\* ------------------------------------------------- the per-minute table
\* The defaultdict factory of by_minute.
EmptyBucket ==
  [samples |-> 0, total_lines |-> 0, failed_to_parse |-> 0,
   level_counts |-> [l \in LevelNames |-> 0],
   message_counts |-> [m \in Messages |-> 0]]

EmptyTable == <<>>

\* by_minute[k] read through the defaultdict.
Bucket(t, k) == IF k \in DOMAIN t THEN t[k] ELSE EmptyBucket

\* by_minute[k] = b
SetBucket(t, k, b) == [x \in (DOMAIN t) \cup {k} |-> IF x = k THEN b ELSE t[x]]

\* for level, count in levels.items(): level_counts[level] += count
RECURSIVE AddLevels(_, _)
AddLevels(lc, items) ==
  IF items = <<>> THEN lc
  ELSE AddLevels([lc EXCEPT ![Head(items)[1]] = @ + Head(items)[2]], Tail(items))

\* One iteration of "for timestamp, levels in data['level_counts'].items()":
\* the three counters are bumped before levels.items() is evaluated, so a
\* levels value that is not an object raises with the bucket already changed.
FoldLevelEntry(t, total_lines, failed_to_parse, entry) ==
  LET k == MinuteKey(entry.ts)
      b == [Bucket(t, k) EXCEPT !.samples = @ + 1,
                                !.total_lines = @ + total_lines,
                                !.failed_to_parse = @ + failed_to_parse]
  IN IF entry.levels.dict
       THEN [table |-> SetBucket(t, k, [b EXCEPT !.level_counts =
                                          AddLevels(@, entry.levels.items)]),
             ok |-> TRUE]
       ELSE [table |-> SetBucket(t, k, b), ok |-> FALSE]

RECURSIVE FoldLevelCounts(_, _, _, _)
FoldLevelCounts(t, total_lines, failed_to_parse, entries) ==
  IF entries = <<>> THEN [table |-> t, ok |-> TRUE]
  ELSE LET r == FoldLevelEntry(t, total_lines, failed_to_parse, Head(entries))
       IN IF r.ok
            THEN FoldLevelCounts(r.table, total_lines, failed_to_parse, Tail(entries))
            ELSE r

\* for msg_data in messages: by_minute[k]['message_counts'][message] += count
RECURSIVE AddMessages(_, _, _)
AddMessages(t, k, msgs) ==
  IF msgs = <<>> THEN t
  ELSE AddMessages(
         SetBucket(t, k, [Bucket(t, k) EXCEPT
                            !.message_counts[Head(msgs).message] = @ + Head(msgs).count]),
         k, Tail(msgs))

RECURSIVE FoldMessageCounts(_, _)
FoldMessageCounts(t, entries) ==
  IF entries = <<>> THEN t
  ELSE FoldMessageCounts(AddMessages(t, MinuteKey(Head(entries).ts), Head(entries).msgs),
                         Tail(entries))

\* Body of the try block of the second pass for one new file.  ok = FALSE
\* is the except branch: the file is reported and not marked processed.
ProcessNewFileMutant(t, name) ==
  LET data == ReadJson(name)
  IN IF ~data.valid THEN [table |-> t, ok |-> TRUE]
     ELSE LET r == FoldLevelCounts(t, data.total_lines, data.failed_to_parse,
                                   data.level_counts)
          IN IF r.ok
               THEN [table |-> FoldMessageCounts(r.table, data.message_counts),
                     ok |-> TRUE]
               ELSE r
ProcessNewFile(t, name) ==
  LET data == ReadJson(name)
  IN IF ~data.valid THEN [table |-> t, ok |-> FALSE]
     ELSE LET r == FoldLevelCounts(t, data.total_lines, data.failed_to_parse,
                                   data.level_counts)
          IN IF r.ok
               THEN [table |-> FoldMessageCounts(r.table, data.message_counts),
                     ok |-> TRUE]
               ELSE r

\* processed_set.add(json_file.name)
MarkProcessedMutant(processed_set, name) == {name}
MarkProcessed(processed_set, name) == processed_set \cup {name}

\* Second pass over new_files: the table, the processed set and the number
\* of files whose try block ran to its end.
RECURSIVE SecondPass(_, _, _, _)
SecondPass(t, processed_set, success_count, new_files) ==
  IF new_files = <<>>
    THEN [table |-> t, processed_set |-> processed_set,
          success_count |-> success_count]
  ELSE LET r == ProcessNewFile(t, Head(new_files))
       IN IF r.ok
            THEN SecondPass(r.table, MarkProcessed(processed_set, Head(new_files)),
                            success_count + 1, Tail(new_files))
            ELSE SecondPass(r.table, processed_set, success_count, Tail(new_files))

\* ------------------------------------------------ global message table
\* all_messages[message] += count on a defaultdict(int).
AddCount(all_messages, message, count) ==
  [m \in (DOMAIN all_messages) \cup {message} |->
     IF m = message
       THEN (IF m \in DOMAIN all_messages THEN all_messages[m] ELSE 0) + count
       ELSE all_messages[m]]

RECURSIVE AddAllMessages(_, _)
AddAllMessages(all_messages, msgs) ==
  IF msgs = <<>> THEN all_messages
  ELSE AddAllMessages(AddCount(all_messages, Head(msgs).message, Head(msgs).count),
                      Tail(msgs))

RECURSIVE FoldFileMessages(_, _)
FoldFileMessages(all_messages, entries) ==
  IF entries = <<>> THEN all_messages
  ELSE FoldFileMessages(AddAllMessages(all_messages, Head(entries).msgs), Tail(entries))

\* First pass over all_json_files; a file that does not load is skipped.
RECURSIVE FirstPass(_, _)
FirstPass(all_messages, files) ==
  IF files = <<>> THEN all_messages
  ELSE LET data == ReadJson(Head(files))
       IN FirstPass(IF data.valid
                      THEN FoldFileMessages(all_messages, data.message_counts)
                      ELSE all_messages,
                    Tail(files))

\* -------------------------------------------------------- time_series.csv
Comma == <<",">>

CsvRowMutant(minute, data) ==
  minute \o Comma \o StrInt(data.samples) \o Comma \o StrInt(data.total_lines)
    \o Comma \o StrInt(data.level_counts["info"])
    \o Comma \o StrInt(data.level_counts["error"])
    \o Comma \o StrInt(data.level_counts["warn"])
    \o Comma \o StrInt(data.level_counts["debug"])

\* f"{minute},{samples},{total_lines},{info},{warn},{error},{debug}"
CsvRow(minute, data) ==
  minute \o Comma \o StrInt(data.samples) \o Comma \o StrInt(data.total_lines)
    \o Comma \o StrInt(data.level_counts["info"])
    \o Comma \o StrInt(data.level_counts["warn"])
    \o Comma \o StrInt(data.level_counts["error"])
    \o Comma \o StrInt(data.level_counts["debug"])

RECURSIVE CsvRows(_, _)
CsvRows(t, minutes) ==
  IF minutes = <<>> THEN <<>>
  ELSE <<CsvRow(Head(minutes), t[Head(minutes)])>> \o CsvRows(t, Tail(minutes))

\* write_csv: the header, then one line per minute in sorted key order.
write_csv(by_minute) ==
  [exists |-> TRUE,
   lines |-> <<Header>> \o CsvRows(by_minute, SortedKeys(DOMAIN by_minute))]

\* The j-th assignment of a CSV row: samples, total_lines, info, warn,
\* error, debug take parts[1] .. parts[6] (0-based).
SetCsvField(b, j, v) ==
  IF j = 1 THEN [b EXCEPT !.samples = v]
  ELSE IF j = 2 THEN [b EXCEPT !.total_lines = v]
  ELSE [b EXCEPT !.level_counts[CsvLevels[j - 2]] = v]

\* The six assignments of one row, in order.  int() is evaluated before the
\* bucket is looked up, so a failing field leaves the earlier fields of the
\* row assigned and raises (ok = FALSE).
RECURSIVE LoadFields(_, _, _)
LoadFields(t, parts, j) ==
  IF j > 6 THEN [table |-> t, ok |-> TRUE]
  ELSE LET v == ParseInt(parts[j + 1])
       IN IF v.ok
            THEN LoadFields(SetBucket(t, parts[1],
                                      SetCsvField(Bucket(t, parts[1]), j, v.val)),
                            parts, j + 1)
            ELSE [table |-> t, ok |-> FALSE]

\* "for line in f": the exception handler is outside the loop, so the first
\* row that raises ends the load with what was read so far.
RECURSIVE LoadLines(_, _)
LoadLines(t, lines) ==
  IF lines = <<>> THEN t
  ELSE LET parts == Split(Strip(Head(lines)))
       IN IF Len(parts) >= 7
            THEN LET r == LoadFields(t, parts, 1)
                 IN IF r.ok THEN LoadLines(r.table, Tail(lines)) ELSE r.table
            ELSE LoadLines(t, Tail(lines))

\* load_existing_data: next(f) skips the header (an empty file raises
\* StopIteration, which the handler swallows).
load_existing_data(csv_file) ==
  IF ~csv_file.exists \/ csv_file.lines = <<>> THEN EmptyTable
  ELSE LoadLines(EmptyTable, Tail(csv_file.lines))

\* ---------------------------------------------------------------- state file
\* load_state: the stored object; the default when there is no file or
\* when json.load raises (with a warning).  An object of another shape is
\* returned as it is.
load_state(state_file) ==
  IF ~state_file.exists \/ state_file = InvalidStateFile
    THEN [processed_files |-> <<>>, last_update |-> 0]
    ELSE IF state_file = UnexpectedStateFile
      THEN [text |-> "{}"]
      ELSE [processed_files |-> state_file.processed_files,
            last_update |-> state_file.last_update]

SeqToSet(q) == {q[i] : i \in 1..Len(q)}

\* state['processed_files'] = sorted(list(processed_set)); save_state stamps
\* last_update with the current time.
save_state(processed_set, clock) ==
  [exists |-> TRUE,
   processed_files |-> SortedNames(processed_set),
   last_update |-> clock]

\* ----------------------------------------------------------------- summary.md
RECURSIVE SumOver(_, _, _)
SumOver(t, keys, field) ==
  IF keys = {} THEN 0
  ELSE LET k == CHOOSE x \in keys : TRUE
       IN t[k][field] + SumOver(t, keys \ {k}, field)

\* sorted(by_minute.keys())[-20:]
ReportRows == 20

LastRows(keys) ==
  IF Len(keys) <= ReportRows THEN keys
  ELSE SubSeq(keys, Len(keys) - ReportRows + 1, Len(keys))

\* One line of the "Log Levels by Minute" table.
ReportRow(minute, data) ==
  <<minute, data.samples, data.total_lines,
    data.level_counts["info"], data.level_counts["warn"],
    data.level_counts["error"], data.level_counts["debug"]>>

\* msg[:70] and msg.lower() need a str.
IsStr(message) == message # NullMessage

\* write_summary, as the values it renders.  The file is written top down:
\* a message that is not a str raises in the top-messages table, leaving the
\* file cut there (complete = FALSE) and the exception uncaught.
write_summary(by_minute, all_messages, new_files_count, clock) ==
  LET keys == SortedKeys(DOMAIN by_minute)
  IN [exists |-> TRUE,
      generated |-> clock,
      new_files_count |-> new_files_count,
      time_range |-> IF keys = <<>> THEN <<>> ELSE <<keys[1], keys[Len(keys)]>>,
      total_samples |-> SumOver(by_minute, DOMAIN by_minute, "samples"),
      total_lines |-> SumOver(by_minute, DOMAIN by_minute, "total_lines"),
      total_failed |-> SumOver(by_minute, DOMAIN by_minute, "failed_to_parse"),
      rows |-> [i \in 1..Len(LastRows(keys)) |->
                  ReportRow(LastRows(keys)[i], by_minute[LastRows(keys)[i]])],
      complete |-> \A m \in DOMAIN all_messages : IsStr(m),
      messages |-> IF \A m \in DOMAIN all_messages : IsStr(m)
                     THEN all_messages ELSE <<>>]

\* ---------------------------------------------------------------- the state
VARIABLES
  dirExists,    \* the target directory exists
  dirFiles,     \* names of the summary files dropped into it
  csv,          \* time_series.csv
  summary,      \* summary.md
  now,          \* the clock: one tick per invocation
  ret,          \* outcome of the last aggregate_logs call
  by_minute,    \* by_minute of the last run that reached the write phase
  all_messages, \* all_messages of the last run that reached the write phase
  hist,         \* history: one record per invocation
  folds,        \* history: per file, how many second-pass folds went into
                \* the table now held in the CSV
  wpc,          \* watch_mode: where the loop stands ("off": not in watch mode)
  pending,      \* watch_mode: the locals of the iteration under way
  crit_items,   \* write_summary alone: all_messages.items(), in dict order
  crit_section, \* write_summary alone: the Critical Patterns section written
  sessionFile,  \* cli_auth: the cached session file (session.json)
  clock,        \* cli_auth: time.time(), in seconds
  issued,       \* cli_auth: how many access tokens the auth server has issued
  calls,        \* cli_auth history: one record per command run
  flow,         \* cli_auth._perform_login: the callback server, its handler
                \* threads and the main thread
  summ          \* process_logs.summarise_logs: its locals while it reads a
                \* raw log, and the summary it returns

watchVars == <<wpc, pending>>

reportVars == <<crit_items, crit_section>>

authVars == <<sessionFile, clock, issued, calls>>

\* What the aggregator's steps leave alone.
\* The tools that are looked at on their own.
toolVars == <<flow, summ>>

sideVars == <<reportVars, authVars, toolVars>>

vars == <<dirExists, dirFiles, csv, stateFile, summary, now, ret, by_minute,
          all_messages, hist, folds, watchVars, sideVars>>

\* The files dropped into a watched directory: a well-formed one, one
\* whose level_counts raise half way, one whose message is null.
WatchFiles == {"a.json", "shape.json", "nullmsg.json"}

AllNames == FileNames \cup {STATE_FILE_NAME}

\* No iteration under way.
NoPending == [active |-> FALSE]

\* Nothing on disk yet.
Fresh ==
  /\ dirExists = FALSE
  /\ dirFiles = {}
  /\ csv = NoFile
  /\ stateFile = NoFile
  /\ summary = NoFile
  /\ now = 0
  /\ ret = "none"
  /\ by_minute = EmptyTable
  /\ all_messages = <<>>
  /\ hist = <<>>
  /\ folds = [f \in AllNames |-> 0]
  /\ pending = NoPending

\* The Critical Patterns section is not being looked at on its own.
NotWritten == [written |-> FALSE]

ReportIdle == crit_items = <<>> /\ crit_section = NotWritten

\* No session cached, no auth command run yet; time.time() is positive.
NoSession == [exists |-> FALSE]

StartTime == 1000

AuthIdle ==
  /\ sessionFile = NoSession
  /\ clock = StartTime
  /\ issued = 0
  /\ calls = <<>>

\* No browser login under way.
NoLogin == [pc |-> "off"]

\* No raw log being summarised.
NoSummarise == [pc |-> "off"]

ToolsIdle == flow = NoLogin /\ summ = NoSummarise

\* The script is used one invocation at a time.
Init == Fresh /\ wpc = "off" /\ ReportIdle /\ AuthIdle /\ ToolsIdle

\* The directory is created.
Mkdir ==
  /\ ~dirExists
  /\ dirExists' = TRUE
  /\ UNCHANGED <<dirFiles, csv, stateFile, summary, now, ret, by_minute,
                 all_messages, hist, folds, watchVars, sideVars>>

\* An external writer drops a new summary file into the directory (files
\* added after the last explored run are never read).
AddFile(name) ==
  /\ dirExists
  /\ now < MaxRuns
  /\ name \notin dirFiles
  /\ dirFiles' = dirFiles \cup {name}
  /\ UNCHANGED <<dirExists, csv, stateFile, summary, now, ret, by_minute,
                 all_messages, hist, folds, watchVars, sideVars>>

\* log_path.glob("*.json"), sorted.
Listing == SortedNames(dirFiles \cup (IF stateFile.exists THEN {STATE_FILE_NAME} ELSE {}))

\* state['processed_files'] raises KeyError on a loaded state without that
\* key; a full run does not load the state.
StateRaises(incremental) ==
  incremental /\ "processed_files" \notin DOMAIN load_state(stateFile)

\* processed_set of a run: the stored list, or nothing in a full run.
ProcessedAtStart(incremental) ==
  IF incremental /\ ~StateRaises(incremental)
    THEN SeqToSet(load_state(stateFile).processed_files) ELSE {}

\* The early exit for no new file (a missing directory exits before it).
NothingToDoMutant(dir_exists, new_files) == ~dir_exists
NothingToDo(dir_exists, new_files) == ~dir_exists \/ new_files = <<>>

\* by_minute before the second pass.
StartTableMutant(incremental) ==
  IF csv.exists THEN load_existing_data(csv) ELSE EmptyTable
StartTable(incremental) ==
  IF incremental /\ csv.exists THEN load_existing_data(csv) ELSE EmptyTable

HistEntry(incremental, new_files, outcome) ==
  [incremental |-> incremental,
   dir_exists |-> dirExists,
   fresh |-> ~csv.exists /\ ~stateFile.exists,
   listing |-> SeqToSet(Listing),
   new_files |-> SeqToSet(new_files),
   ret |-> outcome]

\* files_to_process_for_messages = all_json_files: the first pass reads
\* every listed file, not only the new ones.
MessageFilesMutant(all_json_files, new_files) == new_files
MessageFiles(all_json_files, new_files) == all_json_files

\* The value returned before anything is read or written: False for a
\* missing directory, and when there is no new file True in incremental mode
\* ("No new files to process") and False in full mode ("No JSON files found").
EarlyReturnMutant(dir_exists, incremental) ==
  IF dir_exists THEN "True" ELSE "False"
EarlyReturn(dir_exists, incremental) ==
  IF dir_exists /\ incremental THEN "True" ELSE "False"

\* aggregate_logs(log_dir, incremental), from the call to its return.
aggregate_logs(incremental) ==
  /\ wpc = "off"
  /\ now < MaxRuns
  /\ now' = now + 1
  /\ UNCHANGED <<dirExists, dirFiles, watchVars, sideVars>>
  /\ LET processed_set == ProcessedAtStart(incremental)
         all_json_files == Listing
         new_files == SelectSeq(all_json_files, LAMBDA f : f \notin processed_set)
         nothingToDo == NothingToDo(dirExists, new_files)
         outcome0 == EarlyReturn(dirExists, incremental)
         messages == FirstPass(<<>>, MessageFiles(all_json_files, new_files))
         pass2 == SecondPass(StartTable(incremental), processed_set, 0, new_files)
     IN IF dirExists /\ StateRaises(incremental)
          THEN /\ ret' = "raised"
               /\ hist' = Append(hist, HistEntry(incremental, <<>>, "raised"))
               /\ UNCHANGED <<csv, stateFile, summary, by_minute, all_messages, folds>>
        ELSE IF nothingToDo
          THEN /\ ret' = outcome0
               /\ hist' = Append(hist, HistEntry(incremental, <<>>, outcome0))
               /\ UNCHANGED <<csv, stateFile, summary, by_minute, all_messages, folds>>
          ELSE /\ by_minute' = pass2.table
               /\ all_messages' = messages
               /\ csv' = write_csv(by_minute')
               /\ summary' = write_summary(by_minute', all_messages', Len(new_files), now')
               /\ stateFile' = IF incremental /\ summary'.complete
                                 THEN save_state(pass2.processed_set, now')
                                 ELSE stateFile
               /\ ret' = IF summary'.complete THEN "True" ELSE "raised"
               /\ hist' = Append(hist, HistEntry(incremental, new_files, ret'))
               /\ folds' = [f \in AllNames |->
                              (IF incremental /\ csv.exists THEN folds[f] ELSE 0)
                              + (IF f \in SeqToSet(new_files) /\ ReadJson(f).valid
                                   THEN 1 ELSE 0)]

Next ==
  \/ Mkdir
  \/ \E name \in FileNames : AddFile(name)
  \/ \E incremental \in BOOLEAN : aggregate_logs(incremental)

Spec == Init /\ [][Next]_vars

\* ---------------------------------------------------------------- watch_mode
\* "while True: aggregate_logs(log_dir, incremental=True); time.sleep(interval)"
\* inside "try ... except KeyboardInterrupt".  The iteration is split where
\* it writes a file, so that an interrupt can fall between two writes.
\* The start of an iteration: everything aggregate_logs does before
\* write_csv (state and CSV loaded, directory listed, both passes).
WatchBegin ==
  /\ wpc = "idle"
  /\ now < MaxIterations
  /\ now' = now + 1
  /\ UNCHANGED <<dirExists, dirFiles, csv, stateFile, summary, by_minute,
                 all_messages, folds, sideVars>>
  /\ LET processed_set == ProcessedAtStart(TRUE)
         all_json_files == Listing
         new_files == SelectSeq(all_json_files, LAMBDA f : f \notin processed_set)
         outcome0 == EarlyReturn(dirExists, TRUE)
         pass2 == SecondPass(StartTable(TRUE), processed_set, 0, new_files)
     IN IF dirExists /\ StateRaises(TRUE)
          THEN /\ ret' = "raised"
               /\ hist' = Append(hist, HistEntry(TRUE, <<>>, "raised"))
               /\ wpc' = "crashed"
               /\ UNCHANGED pending
        ELSE IF NothingToDo(dirExists, new_files)
          THEN /\ ret' = outcome0
               /\ hist' = Append(hist, HistEntry(TRUE, <<>>, outcome0))
               /\ UNCHANGED <<wpc, pending>>
          ELSE /\ pending' =
                    [active |-> TRUE,
                     table |-> pass2.table,
                     messages |-> FirstPass(<<>>, MessageFiles(all_json_files, new_files)),
                     processed_set |-> pass2.processed_set,
                     new_files |-> new_files,
                     had_csv |-> csv.exists,
                     entry |-> HistEntry(TRUE, new_files, "running")]
               /\ wpc' = "write_csv"
               /\ UNCHANGED <<ret, hist>>

\* write_csv(by_minute, csv_file)
WatchWriteCsv ==
  /\ wpc = "write_csv"
  /\ by_minute' = pending.table
  /\ csv' = write_csv(pending.table)
  /\ folds' = [f \in AllNames |->
                 (IF pending.had_csv THEN folds[f] ELSE 0)
                 + (IF f \in SeqToSet(pending.new_files) /\ ReadJson(f).valid
                      THEN 1 ELSE 0)]
  /\ wpc' = "write_summary"
  /\ UNCHANGED <<dirExists, dirFiles, stateFile, summary, now, ret,
                 all_messages, hist, pending, sideVars>>

\* write_summary(by_minute, all_messages, summary_file, len(new_files)); an
\* exception it raises is not a KeyboardInterrupt and ends the process.
WatchWriteSummary ==
  /\ wpc = "write_summary"
  /\ all_messages' = pending.messages
  /\ summary' = write_summary(pending.table, pending.messages,
                              Len(pending.new_files), now)
  /\ IF summary'.complete
       THEN /\ wpc' = "save_state"
            /\ UNCHANGED <<ret, hist, pending>>
       ELSE /\ wpc' = "crashed"
            /\ ret' = "raised"
            /\ hist' = Append(hist, [pending.entry EXCEPT !.ret = "raised"])
            /\ pending' = NoPending
  /\ UNCHANGED <<dirExists, dirFiles, csv, stateFile, now, by_minute, folds,
                 sideVars>>

\* save_state(state_file, state), the return, and on to time.sleep.
WatchSaveState ==
  /\ wpc = "save_state"
  /\ stateFile' = save_state(pending.processed_set, now)
  /\ ret' = "True"
  /\ hist' = Append(hist, [pending.entry EXCEPT !.ret = "True"])
  /\ wpc' = "idle"
  /\ pending' = NoPending
  /\ UNCHANGED <<dirExists, dirFiles, csv, summary, now, by_minute,
                 all_messages, folds, sideVars>>

\* Ctrl+C: KeyboardInterrupt is raised wherever the loop stands, during the
\* sleep or inside aggregate_logs, and watch_mode returns.
Interrupt ==
  /\ wpc \in {"idle", "write_csv", "write_summary", "save_state"}
  /\ wpc' = "stopped"
  /\ pending' = NoPending
  /\ UNCHANGED <<dirExists, dirFiles, csv, stateFile, summary, now, ret,
                 by_minute, all_messages, hist, folds, sideVars>>

InitWatch == Fresh /\ wpc = "idle" /\ ReportIdle /\ AuthIdle /\ ToolsIdle

NextWatch ==
  \/ Mkdir
  \/ \E name \in WatchFiles : AddFile(name)
  \/ WatchBegin
  \/ WatchWriteCsv
  \/ WatchWriteSummary
  \/ WatchSaveState
  \/ Interrupt

SpecWatch == InitWatch /\ [][NextWatch]_vars

\* ------------------------------------------- summary.md: critical patterns
UpperChars == <<"A","B","C","D","E","F","G","H","I","J","K","L","M","N","O","P","Q","R","S","T","U","V","W","X","Y","Z">>

LowerChars == <<"a","b","c","d","e","f","g","h","i","j","k","l","m","n","o","p","q","r","s","t","u","v","w","x","y","z">>

LowerChar(c) ==
  IF \E i \in 1..Len(UpperChars) : UpperChars[i] = c
    THEN LowerChars[CHOOSE i \in 1..Len(UpperChars) : UpperChars[i] = c]
    ELSE c

\* str.lower()
lower(str) == [i \in 1..Len(str) |-> LowerChar(str[i])]

\* "sub in str"
Contains(sub, str) ==
  \E i \in 0..(Len(str) - Len(sub)) : SubSeq(str, i + 1, i + Len(sub)) = sub

critical_keywords ==
  << <<"E","m","e","r","g","e","n","c","y"," ","s","c","a","l","e","-","d","o","w","n">>,
     <<"e","r","r","o","r">>,
     <<"f","a","i","l","e","d">>,
     <<"p","a","n","i","c">>,
     <<"c","r","a","s","h">>,
     <<"t","i","m","e","o","u","t">>,
     <<"k","i","l","l","e","d">> >>

\* keyword.lower() in msg.lower()
KeywordInMutant(keyword, msg) == Contains(keyword, msg)
KeywordIn(keyword, msg) == Contains(lower(keyword), lower(msg))

\* critical_found[keyword]: the matching (msg, count) pairs in dict order.
Findings(keyword, items) == SelectSeq(items, LAMBDA it : KeywordIn(keyword, it.msg))

\* sorted(findings, key=lambda x: x[1], reverse=True): highest count first,
\* equal counts in their original order.
RECURSIVE SortedByCount(_)
SortedByCount(findings) ==
  IF findings = <<>> THEN <<>>
  ELSE LET i == CHOOSE k \in 1..Len(findings) :
                  /\ \A j \in 1..Len(findings) : findings[j].count <= findings[k].count
                  /\ \A j \in 1..(k - 1) : findings[j].count < findings[k].count
       IN <<findings[i]>>
            \o SortedByCount(SubSeq(findings, 1, i - 1)
                               \o SubSeq(findings, i + 1, Len(findings)))

\* [:5] of the sorted findings, and msg[:65].
CriticalLimit == 5

CriticalWidth == 65

\* msg.replace('|', '\\|')
RECURSIVE EscapePipes(_)
EscapePipes(str) ==
  IF str = <<>> THEN <<>>
  ELSE (IF Head(str) = "|" THEN <<"\\", "|">> ELSE <<Head(str)>>) \o EscapePipes(Tail(str))

\* One "- **{count:,}x** {escaped_msg}" line.
CriticalLine(it) == [count |-> it.count, text |-> EscapePipes(Prefix(it.msg, CriticalWidth))]

CriticalLines(findings) ==
  LET top == Prefix(SortedByCount(findings), CriticalLimit)
  IN [i \in 1..Len(top) |-> CriticalLine(top[i])]

\* One "### '{keyword}' patterns found:" block per keyword with findings, in
\* the order of critical_keywords.
RECURSIVE CriticalBlocks(_, _)
CriticalBlocks(keywords, items) ==
  IF keywords = <<>> THEN <<>>
  ELSE LET findings == Findings(Head(keywords), items)
       IN (IF findings = <<>> THEN <<>>
           ELSE << [keyword |-> Head(keywords), lines |-> CriticalLines(findings)] >>)
          \o CriticalBlocks(Tail(keywords), items)

\* The Critical Patterns section of write_summary: the blocks, or the "No
\* critical patterns detected" line when critical_found is empty.
CriticalPatterns(items) ==
  LET blocks == CriticalBlocks(critical_keywords, items)
  IN [written |-> TRUE, blocks |-> blocks, none_detected |-> blocks = <<>>]

\* Message texts for the section taken on its own: six in which 'error'
\* occurs, one with another keyword and one without any.
MessagePool ==
  << <<"e","r","r","o","r">>,
     <<"E","r","r","o","r",":"," ","x","|","y">>,
     <<"E","R","R","O","R">>,
     <<"d","b"," ","e","r","r","o","r","s">>,
     <<"D","e","p","l","o","y"," ","f","a","i","l","e","d"," ","w","i","t","h"," ","e","r","r","o","r">>,
     <<"E","M","E","R","G","E","N","C","Y"," ","S","C","A","L","E","-","D","O","W","N"," ","e","r","r","o","r">> >>

TimeoutMessage == <<"r","e","q","u","e","s","t"," ","T","i","m","e","o","u","t">>

PlainMessage == <<"s","t","a","r","t","e","d"," ","j","o","b">>

\* Counts a message of the pool may have (0: the message does not occur).
MaxCount == 2

\* all_messages.items(): the pool messages that occur, with their counts,
\* then the two others.
PoolItems(counts, with_timeout, with_plain) ==
  SelectSeq([i \in 1..Len(MessagePool) |-> [msg |-> MessagePool[i], count |-> counts[i]]],
            LAMBDA it : it.count > 0)
    \o (IF with_timeout THEN << [msg |-> TimeoutMessage, count |-> 1] >> ELSE <<>>)
    \o (IF with_plain THEN << [msg |-> PlainMessage, count |-> MaxCount + 1] >> ELSE <<>>)

InitReport ==
  /\ Fresh /\ wpc = "off" /\ AuthIdle /\ ToolsIdle
  /\ crit_section = NotWritten
  /\ \E counts \in [1..Len(MessagePool) -> 0..MaxCount],
        with_timeout \in BOOLEAN, with_plain \in BOOLEAN :
       crit_items = PoolItems(counts, with_timeout, with_plain)

\* write_summary reaches the Critical Patterns section.
WriteCritical ==
  /\ ~crit_section.written
  /\ crit_section' = CriticalPatterns(crit_items)
  /\ UNCHANGED <<dirExists, dirFiles, csv, stateFile, summary, now, ret, by_minute,
                 all_messages, hist, folds, watchVars, crit_items, authVars, toolVars>>

NextReport == WriteCritical

SpecReport == InitReport /\ [][NextReport]_vars

\* ------------------------------------------------------ auth/cli_auth.py
TOKEN_SKEW_SECONDS == 90

\* session.get("expires_at") of a session without that key.  The other keys
\* are only tested for truth, and an absent one is written 0.
None == 0 - 1

\* The clock advances by this much between two commands.
TickSeconds == 60

\* What a session the server grants may look like: its lifetime, and
\* whether expires_at and a refresh token come with it.
Shape(lifetime, with_expires_at, with_refresh) ==
  [lifetime |-> lifetime, with_expires_at |-> with_expires_at,
   with_refresh |-> with_refresh]

FullShape == Shape(150, TRUE, TRUE)

SessionShapes ==
  {FullShape, Shape(150, FALSE, TRUE), Shape(150, TRUE, FALSE), Shape(60, TRUE, TRUE)}

\* The JSON object of a successful login or refresh, stamped with
\* fetched_at.  Tokens are numbered in the order the server issues them.
ServerSession(token, shape, fetched_at) ==
  [access_token |-> token,
   refresh_token |-> IF shape.with_refresh THEN token ELSE 0,
   expires_at |-> IF shape.with_expires_at THEN fetched_at + shape.lifetime ELSE None,
   expires_in |-> shape.lifetime,
   fetched_at |-> fetched_at]

\* What a refresh response without access_token may carry besides: nothing,
\* or the expiry fields of a session.
BareShape == Shape(0, FALSE, FALSE)

TokenlessShapes == {BareShape, FullShape}

\* A refresh response that is a JSON object without access_token, stamped
\* with fetched_at.
TokenlessResponse(shape, fetched_at) ==
  [access_token |-> 0,
   refresh_token |-> 0,
   expires_at |-> IF shape.with_expires_at THEN fetched_at + shape.lifetime ELSE None,
   expires_in |-> shape.lifetime,
   fetched_at |-> fetched_at]

\* _save_session: the file is replaced as a whole.
SavedSession(data) == [exists |-> TRUE, data |-> data]

_is_token_validMutant(session, time) ==
  LET expires_at ==
        IF session.expires_at = None /\ session.expires_in # 0 /\ session.fetched_at # 0
          THEN session.fetched_at + session.expires_in
          ELSE session.expires_at
  IN IF expires_at = None THEN FALSE
     ELSE expires_at - TOKEN_SKEW_SECONDS >= time

\* _is_token_valid
_is_token_valid(session, time) ==
  LET expires_at ==
        IF session.expires_at = None /\ session.expires_in # 0 /\ session.fetched_at # 0
          THEN session.fetched_at + session.expires_in
          ELSE session.expires_at
  IN IF expires_at = None THEN FALSE
     ELSE expires_at - TOKEN_SKEW_SECONDS > time

\* "if session and _is_token_valid(session)": _load_session gives None when
\* there is no file.
UseCached(file, time) == file.exists /\ _is_token_valid(file.data, time)

\* "if session and session.get('refresh_token')"
CanRefresh(file) == file.exists /\ file.data.refresh_token # 0

\* logout: SESSION_FILE.unlink(); FileNotFoundError is caught.
LogoutFileMutant(file) == file
LogoutFile(file) == NoSession

\* What a command leaves in the history.
AuthCall(cmd, force_login, used_cache, refresh_requested, refresh_outcome, login_started, result) ==
  [cmd |-> cmd, force_login |-> force_login, time |-> clock,
   before |-> sessionFile, issued |-> issued,
   used_cache |-> used_cache,
   refresh_requested |-> refresh_requested, refresh_outcome |-> refresh_outcome,
   login_started |-> login_started,
   result |-> result]

\* ensure_token(force_login=...), from the call to its return or exception.
\* refresh is what the token endpoint answers if asked, login how the
\* browser login ends if started ("none": not asked, not started), shape
\* the session granted if one is, or what a response without access_token
\* carries.  result is the access token returned, 0 when the call raises:
\* session["access_token"] of a cached object without that key is a
\* KeyError.
ensure_token(force_login, refresh, login, shape) ==
  LET used_cache == ~force_login /\ UseCached(sessionFile, clock)
      refresh_requested == ~force_login /\ ~used_cache /\ CanRefresh(sessionFile)
      refreshed == refresh_requested /\ refresh = "ok"
      login_started == force_login \/ (~used_cache /\ ~refreshed)
      token == issued + 1
      fresh == ServerSession(token, shape, clock)
  IN /\ Len(calls) < MaxAuthCalls
     /\ refresh = "none" <=> ~refresh_requested
     /\ login = "none" <=> ~login_started
     /\ IF refreshed \/ (login_started /\ login = "ok") THEN shape \in SessionShapes
        ELSE IF refresh = "no_token" THEN shape \in TokenlessShapes
        ELSE shape = FullShape
     /\ sessionFile' =
          IF login_started /\ login = "ok" THEN SavedSession(fresh)
          ELSE IF refreshed THEN SavedSession(fresh)
          ELSE IF refresh_requested /\ refresh = "no_token"
            THEN SavedSession(TokenlessResponse(shape, clock))
          ELSE sessionFile
     /\ issued' = IF refreshed \/ (login_started /\ login = "ok") THEN token ELSE issued
     /\ calls' = Append(calls,
                        AuthCall("ensure", force_login, used_cache, refresh_requested,
                                 refresh, login_started,
                                 IF used_cache THEN sessionFile.data.access_token
                                 ELSE IF refreshed \/ (login_started /\ login = "ok")
                                   THEN token ELSE 0))
     /\ UNCHANGED clock
     /\ UNCHANGED <<dirExists, dirFiles, csv, stateFile, summary, now, ret, by_minute,
                    all_messages, hist, folds, watchVars, reportVars, toolVars>>

\* logout()
logout ==
  /\ Len(calls) < MaxAuthCalls
  /\ sessionFile' = LogoutFile(sessionFile)
  /\ calls' = Append(calls, AuthCall("logout", FALSE, FALSE, FALSE, "none", FALSE, 0))
  /\ UNCHANGED <<clock, issued>>
  /\ UNCHANGED <<dirExists, dirFiles, csv, stateFile, summary, now, ret, by_minute,
                 all_messages, hist, folds, watchVars, reportVars, toolVars>>

\* Time passes between two commands.
Tick ==
  /\ clock < StartTime + MaxTicks * TickSeconds
  /\ clock' = clock + TickSeconds
  /\ UNCHANGED <<sessionFile, issued, calls>>
  /\ UNCHANGED <<dirExists, dirFiles, csv, stateFile, summary, now, ret, by_minute,
                 all_messages, hist, folds, watchVars, reportVars, toolVars>>

\* Nothing cached yet, or the session of an earlier login.
InitAuth ==
  /\ Fresh /\ wpc = "off" /\ ReportIdle /\ ToolsIdle
  /\ clock = StartTime
  /\ calls = <<>>
  /\ \/ sessionFile = NoSession /\ issued = 0
     \/ \E shape \in SessionShapes :
          /\ sessionFile = SavedSession(ServerSession(1, shape, StartTime))
          /\ issued = 1

NextAuth ==
  \/ \E force_login \in BOOLEAN, refresh \in {"none", "ok", "error", "no_token"},
        login \in {"none", "ok", "failed"}, shape \in SessionShapes \cup TokenlessShapes :
       ensure_token(force_login, refresh, login, shape)
  \/ logout
  \/ Tick

SpecAuth == InitAuth /\ [][NextAuth]_vars

\* ----------------------------------- auth/cli_auth.py: the browser login
\* Number of POST requests that reach the callback server during one login.
MaxPosts == 2

PostIds == 1..MaxPosts

\* Handler.expected_state: secrets.token_urlsafe(24) of this login.
ExpectedState == "expected"

CallbackPath == "/callback"

\* A JSON value that is not an object (null), and an object whose
\* access_token is t (0: the key is missing or its value is empty).
JsonNull == [dict |-> FALSE, access_token |-> 0]

TokenDict(t) == [dict |-> TRUE, access_token |-> t]

\* Request bodies: text that is not JSON, a JSON list, and a JSON object
\* with its "session" value (JsonNull when the key is absent) and its own
\* access_token.
InvalidBody == [valid |-> FALSE, dict |-> FALSE, session |-> JsonNull, access_token |-> 0]

ListBody == [valid |-> TRUE, dict |-> FALSE, session |-> JsonNull, access_token |-> 0]

Payload(session, access_token) ==
  [valid |-> TRUE, dict |-> TRUE, session |-> session, access_token |-> access_token]

Request(path, state, body) == [path |-> path, state |-> state, body |-> body]

\* The POST requests a browser tab or another local program may send; t is
\* the access token the request carries.
Requests(t) ==
  {Request("/other", ExpectedState, Payload(TokenDict(t), 0)),
   Request(CallbackPath, "other", Payload(TokenDict(t), 0)),
   Request(CallbackPath, ExpectedState, InvalidBody),
   Request(CallbackPath, ExpectedState, ListBody),
   Request(CallbackPath, ExpectedState, Payload(JsonNull, 0)),
   Request(CallbackPath, ExpectedState, Payload(TokenDict(0), t)),
   Request(CallbackPath, ExpectedState, Payload(TokenDict(t), 0)),
   Request(CallbackPath, ExpectedState, Payload(JsonNull, t))}

\* session = payload.get("session") if isinstance(payload, dict) else None;
\* if session is None and isinstance(payload, dict): session = payload
ExtractSession(payload) ==
  LET session == IF payload.dict THEN payload.session ELSE JsonNull
  IN IF session = JsonNull /\ payload.dict
       THEN TokenDict(payload.access_token) ELSE session

\* isinstance(session, dict) and session.get("access_token")
HasAccessTokenMutant(session) == session.dict
HasAccessToken(session) == session.dict /\ session.access_token # 0

\* Where do_POST goes before it touches the shared result.
Route(req) ==
  IF req.path # CallbackPath THEN "not_found"
  ELSE IF req.state # ExpectedState THEN "state_mismatch"
  ELSE IF ~req.body.valid THEN "invalid_json"
  ELSE IF ~HasAccessToken(ExtractSession(req.body)) THEN "missing_token"
  ELSE "accepted"

\* result: dict[str, object] = {}
EmptyResult == [error |-> FALSE, session |-> JsonNull]

\* A request not sent yet.  wrote is what a handler has put into the result.
NoPost ==
  [pc |-> "none", req |-> Request("", "", InvalidBody), route |-> "none", wrote |-> "none"]

\* The session _perform_login saves: the callback's session object stamped
\* with fetched_at.
LoginSession(session, fetched_at) ==
  [access_token |-> session.access_token, refresh_token |-> 0,
   expires_at |-> None, expires_in |-> 0, fetched_at |-> fetched_at]

\* _perform_login after _start_callback_server and webbrowser.open: the
\* main thread waits on done_event, the server accepts requests.
Waiting ==
  [pc |-> "waiting", serving |-> TRUE, event |-> FALSE, result |-> EmptyResult,
   posts |-> [p \in PostIds |-> NoPost], session |-> JsonNull, tmp |-> NoSession,
   outcome |-> "none", mismatch_handled |-> FALSE, before |-> sessionFile]

\* Some wrong-state POST has run to its end.
MismatchHandled ==
  \E p \in PostIds : flow.posts[p].route = "state_mismatch" /\ flow.posts[p].pc = "done"

\* do_POST of a request the server accepted, in its own thread, up to its
\* first access to the shared result: the replies 404 and 400 end it.
do_POST(p, req) ==
  /\ flow.pc # "off" /\ flow.serving
  /\ flow.posts[p].pc = "none"
  /\ \A q \in PostIds : q < p => flow.posts[q].pc # "none"
  /\ flow' = [flow EXCEPT !.posts[p] =
                 [pc |-> IF Route(req) = "state_mismatch" THEN "error_clear"
                         ELSE IF Route(req) = "accepted" THEN "session_clear"
                         ELSE "done",
                  req |-> req, route |-> Route(req), wrote |-> "none"]]
  /\ UNCHANGED <<dirExists, dirFiles, csv, stateFile, summary, now, ret, by_minute,
                 all_messages, hist, folds, watchVars, reportVars, authVars, summ>>

\* self.result.clear()
ResultClear(p) ==
  /\ flow.pc # "off"
  /\ flow.posts[p].pc \in {"error_clear", "session_clear"}
  /\ flow' = [flow EXCEPT !.result = EmptyResult,
                            !.posts[p].pc = IF @ = "error_clear" THEN "error_set"
                                            ELSE "session_set"]
  /\ UNCHANGED <<dirExists, dirFiles, csv, stateFile, summary, now, ret, by_minute,
                 all_messages, hist, folds, watchVars, reportVars, authVars, summ>>

\* self.result["error"] = "state_mismatch"
ResultSetError(p) ==
  /\ flow.pc # "off"
  /\ flow.posts[p].pc = "error_set"
  /\ flow' = [flow EXCEPT !.result.error = TRUE, !.posts[p].pc = "event",
                            !.posts[p].wrote = "error"]
  /\ UNCHANGED <<dirExists, dirFiles, csv, stateFile, summary, now, ret, by_minute,
                 all_messages, hist, folds, watchVars, reportVars, authVars, summ>>

\* self.result["session"] = session
ResultSetSession(p) ==
  /\ flow.pc # "off"
  /\ flow.posts[p].pc = "session_set"
  /\ flow' = [flow EXCEPT !.result.session = ExtractSession(flow.posts[p].req.body),
                            !.posts[p].pc = "event", !.posts[p].wrote = "session"]
  /\ UNCHANGED <<dirExists, dirFiles, csv, stateFile, summary, now, ret, by_minute,
                 all_messages, hist, folds, watchVars, reportVars, authVars, summ>>

\* self.event.set(), the last statement of both branches.
EventSet(p) ==
  /\ flow.pc # "off"
  /\ flow.posts[p].pc = "event"
  /\ flow' = [flow EXCEPT !.event = TRUE, !.posts[p].pc = "done"]
  /\ UNCHANGED <<dirExists, dirFiles, csv, stateFile, summary, now, ret, by_minute,
                 all_messages, hist, folds, watchVars, reportVars, authVars, summ>>

\* done_event.wait(timeout=300) returns True; safe_shutdown() stops the
\* server from accepting, the handler threads under way run on.
LoginWoken ==
  /\ flow.pc = "waiting" /\ flow.event
  /\ flow' = [flow EXCEPT !.pc = "check_error", !.serving = FALSE]
  /\ UNCHANGED <<dirExists, dirFiles, csv, stateFile, summary, now, ret, by_minute,
                 all_messages, hist, folds, watchVars, reportVars, authVars, summ>>

\* done_event.wait(timeout=300) returns False: shutdown and RuntimeError.
LoginTimeout ==
  /\ flow.pc = "waiting" /\ ~flow.event
  /\ flow' = [flow EXCEPT !.pc = "raised", !.serving = FALSE, !.outcome = "timeout"]
  /\ UNCHANGED <<dirExists, dirFiles, csv, stateFile, summary, now, ret, by_minute,
                 all_messages, hist, folds, watchVars, reportVars, authVars, summ>>

\* if result.get("error"): raise RuntimeError("Authentication failed: ...")
LoginCheckError ==
  /\ flow.pc = "check_error"
  /\ flow' = [flow EXCEPT
                 !.pc = IF flow.result.error THEN "raised" ELSE "get_session",
                 !.outcome = IF flow.result.error THEN "failed" ELSE @,
                 !.mismatch_handled = MismatchHandled]
  /\ UNCHANGED <<dirExists, dirFiles, csv, stateFile, summary, now, ret, by_minute,
                 all_messages, hist, folds, watchVars, reportVars, authVars, summ>>

\* session = result.get("session"); not a dict: RuntimeError.
LoginGetSession ==
  /\ flow.pc = "get_session"
  /\ flow' = [flow EXCEPT
                 !.pc = IF flow.result.session.dict THEN "save" ELSE "raised",
                 !.outcome = IF flow.result.session.dict THEN @ ELSE "failed",
                 !.session = flow.result.session]
  /\ UNCHANGED <<dirExists, dirFiles, csv, stateFile, summary, now, ret, by_minute,
                 all_messages, hist, folds, watchVars, reportVars, authVars, summ>>

\* session["fetched_at"] = time.time(); _save_session writes session.tmp.
LoginWriteTmp ==
  /\ flow.pc = "save"
  /\ flow' = [flow EXCEPT !.pc = "replace",
                            !.tmp = SavedSession(LoginSession(flow.session, clock))]
  /\ UNCHANGED <<dirExists, dirFiles, csv, stateFile, summary, now, ret, by_minute,
                 all_messages, hist, folds, watchVars, reportVars, authVars, summ>>

\* tmp_path.replace(SESSION_FILE); _perform_login returns the session.
LoginReplace ==
  /\ flow.pc = "replace"
  /\ sessionFile' = flow.tmp
  /\ flow' = [flow EXCEPT !.pc = "returned", !.tmp = NoSession, !.outcome = "ok"]
  /\ UNCHANGED <<clock, issued, calls>>
  /\ UNCHANGED <<dirExists, dirFiles, csv, stateFile, summary, now, ret, by_minute,
                 all_messages, hist, folds, watchVars, reportVars, summ>>

\* A login starts with nothing cached or with the session of an earlier one.
InitLogin ==
  /\ Fresh /\ wpc = "off" /\ ReportIdle
  /\ clock = StartTime /\ calls = <<>>
  /\ \/ sessionFile = NoSession /\ issued = 0
     \/ sessionFile = SavedSession(ServerSession(1, FullShape, StartTime)) /\ issued = 1
  /\ flow = Waiting
  /\ summ = NoSummarise

NextLogin ==
  \/ \E p \in PostIds : \E req \in Requests(issued + p) : do_POST(p, req)
  \/ \E p \in PostIds : ResultClear(p)
  \/ \E p \in PostIds : ResultSetError(p)
  \/ \E p \in PostIds : ResultSetSession(p)
  \/ \E p \in PostIds : EventSet(p)
  \/ LoginWoken
  \/ LoginTimeout
  \/ LoginCheckError
  \/ LoginGetSession
  \/ LoginWriteTmp
  \/ LoginReplace

SpecLogin == InitLogin /\ [][NextLogin]_vars

\* ------------------------------------------------ scripts/process_logs.py
\* Number of lines of the raw log, and how many of them may be other than
\* an info record of the minute 07:50 with a message not seen before.
MaxLines == 22

MaxOther == 2

\* counter.most_common(20)
TopMessages == 20

\* A date without a time, and a timestamp that is not ISO and is shorter
\* than 16 characters.
TsDate == <<"2","0","2","5","-","1","1","-","0","5">>

TsRaw == <<"n","/","a">>

\* A key that is absent from the record (or whose value is empty).
NoValue == <<>>

\* The timestamps datetime.fromisoformat accepts, among those used here.
IsoTimestamps == {Ts5010, Ts5040, Ts5110, TsDate}

\* _normalise_timestamp: "unknown" without a timestamp; strftime
\* "%Y-%m-%dT%H:%M" of a timestamp that parses (midnight for a date); else
\* raw[:16] if len(raw) >= 16 else raw.
_normalise_timestamp(record) ==
  IF record.time = NoValue THEN TsShort
  ELSE IF record.time \in IsoTimestamps
    THEN (IF Len(record.time) = Len(TsDate)
            THEN record.time \o <<"T","0","0",":","0","0">>
            ELSE Prefix(record.time, MinuteKeyLen))
  ELSE IF Len(record.time) >= MinuteKeyLen THEN Prefix(record.time, MinuteKeyLen)
  ELSE record.time

\* A JSON record; level "" and message 0 stand for an absent key.  Messages
\* are numbered texts.
Record(time, level, message) == [time |-> time, level |-> level, message |-> message]

\* str(record.get("level", "unknown"))
LevelOf(record) == IF record.level = "" THEN "unknown" ELSE record.level

\* str(record.get("message", "<no message>")): message 0 is that text.
MessageOf(record) == record.message

\* A line of the raw log: text without "{", text whose part from the first
\* "{" on is not JSON, or a prefix followed by a JSON record.
TextLine == [kind |-> "text", record |-> Record(NoValue, "", 0)]

BrokenLine == [kind |-> "broken", record |-> Record(NoValue, "", 0)]

RecordLine(record) == [kind |-> "record", record |-> record]

\* _iter_records yields None for a line without "{" and for one whose
\* payload raises JSONDecodeError.
IsRecord(line) == line.kind = "record"

\* Counter: the keys in insertion order, each with its count.
RECURSIVE Incr(_, _)
Incr(counter, key) ==
  IF counter = <<>> THEN << [key |-> key, count |-> 1] >>
  ELSE IF Head(counter).key = key
    THEN << [Head(counter) EXCEPT !.count = @ + 1] >> \o Tail(counter)
  ELSE << Head(counter) >> \o Incr(Tail(counter), key)

\* counts[minute][key] += 1 on a defaultdict(Counter)
IncrAt(counts, minute, key) ==
  [m \in (DOMAIN counts) \cup {minute} |->
     IF m = minute
       THEN Incr(IF m \in DOMAIN counts THEN counts[m] ELSE <<>>, key)
       ELSE counts[m]]

RemoveAt(q, i) == SubSeq(q, 1, i - 1) \o SubSeq(q, i + 1, Len(q))

\* sorted(counter.items(), key=count, reverse=True): stable, so equal counts
\* keep their insertion order.
RECURSIVE ByCount(_)
ByCount(counter) ==
  IF counter = <<>> THEN <<>>
  ELSE LET i == CHOOSE i \in 1..Len(counter) :
                  /\ \A j \in 1..Len(counter) : counter[j].count <= counter[i].count
                  /\ \A j \in 1..(i - 1) : counter[j].count < counter[i].count
       IN << counter[i] >> \o ByCount(RemoveAt(counter, i))

\* counter.most_common(n)
most_commonMutant(counter, n) == ByCount(counter)
most_common(counter, n) == SubSeq(ByCount(counter), 1, Min(n, Len(counter)))

\* The summary summarise_logs returns (source and generated_at left out).
Summary(total, parsed, errors, level_counts, message_counts) ==
  [meta |-> [total_lines |-> total, parsed |-> parsed, failed_to_parse |-> errors],
   level_counts |-> level_counts,
   message_counts |-> [m \in DOMAIN message_counts |->
                         most_common(message_counts[m], TopMessages)]]

\* summarise_logs has opened the raw log.
Reading ==
  [pc |-> "reading", total |-> 0, parsed |-> 0, errors |-> 0, other |-> 0, fresh |-> 0,
   level_counts |-> <<>>, message_counts |-> <<>>,
   summary |-> Summary(0, 0, 0, <<>>, <<>>)]

\* An info record of the minute 07:50 whose message is new.
PlainLines(fresh) ==
  {RecordLine(Record(ts, "info", fresh + 1)) : ts \in {Ts5010, Ts5040}}

\* Lines that fail to parse; records with the first message and another
\* timestamp or none; records of 07:50 with another level or none, or with
\* the first message again; a record with neither level nor message.
OtherLines(fresh) ==
  {TextLine, BrokenLine}
    \cup {RecordLine(Record(ts, "info", 1)) :
            ts \in {NoValue, Ts5110, TsDate, TsComma, TsRaw}}
    \cup {RecordLine(Record(Ts5010, level, fresh + 1)) : level \in {"error", ""}}
    \cup {RecordLine(Record(Ts5010, "info", 1)), RecordLine(Record(Ts5110, "", 0))}

\* One iteration of "for record, original in _iter_records(handle)".
ReadLine(line) ==
  /\ summ.pc = "reading"
  /\ summ.total < MaxLines
  /\ line \in PlainLines(summ.fresh) \/ summ.other < MaxOther
  /\ summ' =
       IF ~IsRecord(line)
         THEN [summ EXCEPT !.total = @ + 1, !.errors = @ + 1, !.other = @ + 1]
         ELSE LET minute == _normalise_timestamp(line.record)
              IN [summ EXCEPT
                    !.total = @ + 1,
                    !.parsed = @ + 1,
                    !.other = IF line \in PlainLines(summ.fresh) THEN @ ELSE @ + 1,
                    !.fresh = IF MessageOf(line.record) = @ + 1 THEN @ + 1 ELSE @,
                    !.level_counts = IncrAt(@, minute, LevelOf(line.record)),
                    !.message_counts = IncrAt(@, minute, MessageOf(line.record))]
  /\ UNCHANGED <<dirExists, dirFiles, csv, stateFile, summary, now, ret, by_minute,
                 all_messages, hist, folds, watchVars, reportVars, authVars, flow>>

\* The end of the file: the summary is built and returned.
EndOfLog ==
  /\ summ.pc = "reading"
  /\ summ' = [summ EXCEPT
                !.pc = "done",
                !.summary = Summary(summ.total, summ.parsed, summ.errors,
                                    summ.level_counts, summ.message_counts)]
  /\ UNCHANGED <<dirExists, dirFiles, csv, stateFile, summary, now, ret, by_minute,
                 all_messages, hist, folds, watchVars, reportVars, authVars, flow>>

InitSummarise ==
  /\ Fresh /\ wpc = "off" /\ ReportIdle /\ AuthIdle
  /\ flow = NoLogin
  /\ summ = Reading

NextSummarise ==
  \/ \E line \in PlainLines(summ.fresh) \cup OtherLines(summ.fresh) : ReadLine(line)
  \/ EndOfLog

SpecSummarise == InitSummarise /\ [][NextSummarise]_vars

\* ------------------------------------------- the state file edited from outside
\* Something other than the aggregator deletes the state file or replaces
\* its content.
TamperState(content) ==
  /\ dirExists /\ now < MaxRuns
  /\ stateFile # content
  /\ stateFile' = content
  /\ UNCHANGED <<dirExists, dirFiles, csv, summary, now, ret, by_minute,
                 all_messages, hist, folds, watchVars, sideVars>>

NextTamper ==
  \/ Mkdir
  \/ \E name \in FileNames : AddFile(name)
  \/ \E incremental \in BOOLEAN : aggregate_logs(incremental)
  \/ \E content \in {NoFile, InvalidStateFile, UnexpectedStateFile} : TamperState(content)

SpecTamper == Init /\ [][NextTamper]_vars

\* ------------------------------------------------------- observation helpers
\* The latest invocation.
LastRun == hist[Len(hist)]

\* A step that is one invocation of aggregate_logs.
RunStep == Len(hist') = Len(hist) + 1

ProcessedFiles ==
  IF stateFile.exists /\ "processed_files" \in DOMAIN stateFile
    THEN SeqToSet(stateFile.processed_files) ELSE {}

\* The level/line statistics of a table: every minute key with its samples,
\* total_lines, failed_to_parse and level counts (message counts left out).
TableView(t) ==
  [k \in DOMAIN t |->
     [samples |-> t[k].samples, total_lines |-> t[k].total_lines,
      failed_to_parse |-> t[k].failed_to_parse,
      level_counts |-> t[k].level_counts]]

\* What a CSV row carries of a bucket.
PersistedView(t) ==
  [k \in DOMAIN t |->
     <<t[k].samples, t[k].total_lines, t[k].level_counts["info"],
       t[k].level_counts["warn"], t[k].level_counts["error"],
       t[k].level_counts["debug"]>>]

\* The table one run builds from an empty table over the files S.
OneShot(S) == SecondPass(EmptyTable, {}, 0, SortedNames(S)).table

\* The table obtained by running the second-pass fold of every file as many
\* times as folds records.
RECURSIVE Refold(_, _, _)
Refold(t, names, n) ==
  IF names = <<>> THEN t
  ELSE IF n >= folds[Head(names)] THEN Refold(t, Tail(names), 0)
  ELSE Refold(ProcessNewFile(t, Head(names)).table, names, n + 1)

\* The history variable folds accounts for the numbers in the CSV (as long
\* as the CSV reloads, which a minute key with a comma prevents).
FoldsAccountForCsv ==
  (csv.exists /\ "comma.json" \notin dirFiles)
    => PersistedView(load_existing_data(csv))
         = PersistedView(Refold(EmptyTable, NameOrder, 0))

\* ------------------------------------------------------------------- claims

\* C1: every filename recorded in processed_files of the state file has
\* contributed exactly once to the per-minute counters held in the CSV.
C1_ProcessedContributedOnce ==
  \A f \in ProcessedFiles : folds[f] = 1

\* C2: incremental runs on {A} and then on {A,B} leave the same per-minute
\* table (samples, total_lines, failed_to_parse, level counts per minute key)
\* as one run on {A,B}.
C2_IncrementalEqualsOneShot ==
  \A A \in WellFormed, B \in WellFormed :
    ( /\ A # B
      /\ Len(hist) = 2
      /\ hist[1].incremental /\ hist[1].fresh /\ hist[1].listing = {A}
      /\ hist[2].incremental /\ hist[2].listing = {A, B, STATE_FILE_NAME} )
    => TableView(by_minute) = TableView(OneShot({A, B}))

\* C3: across any sequence of runs the statistics of one JSON file are folded
\* into the per-minute table at most once, also when its processing raises
\* part-way.
C3_FoldedAtMostOnce ==
  \A f \in FileNames : folds[f] <= 1

\* The report without its generation timestamp and new-file count.
ReportBody(s) ==
  IF s.exists
    THEN [time_range |-> s.time_range, total_samples |-> s.total_samples,
          total_lines |-> s.total_lines, total_failed |-> s.total_failed,
          rows |-> s.rows, messages |-> s.messages, complete |-> s.complete]
    ELSE NoFile

\* C4: a second run directly after a run, with no file added in between,
\* leaves the CSV, the state file and the report (but for its timestamp and
\* new-file count) as the first run left them.  Both runs are taken in the
\* same mode and as returning success.
C4_Idempotent ==
  [][ ( /\ RunStep
        /\ hist # <<>>
        /\ LastRun.ret = "True"
        /\ LastRun.listing \ {STATE_FILE_NAME} = dirFiles
        /\ hist'[Len(hist')].incremental = LastRun.incremental
        /\ ret' = "True" )
      => ( /\ csv' = csv
           /\ stateFile' = stateFile
           /\ ReportBody(summary') = ReportBody(summary) ) ]_vars

\* C5: the processed_files set of the state file only grows: no step removes
\* the state file or a name recorded in it.
C5_ProcessedMonotone ==
  [][ stateFile.exists =>
        /\ stateFile'.exists
        /\ SeqToSet(stateFile.processed_files)
             \subseteq SeqToSet(stateFile'.processed_files) ]_vars

\* Witness for C5: two incremental runs have both written the state file and
\* the second one added names to it.
C5_Witness ==
  /\ Len(hist) = 2
  /\ hist[1].incremental /\ hist[1].ret = "True" /\ hist[1].new_files # {}
  /\ hist[2].incremental /\ hist[2].ret = "True" /\ hist[2].new_files # {}
  /\ stateFile.exists
  /\ \E f \in FileNames : f \in ProcessedFiles /\ f \notin hist[1].listing

\* C6 as stated: on a directory holding one well-formed file and one file of
\* invalid JSON a run returns success, writes the CSV of the well-formed file
\* alone, and records the well-formed file, not the invalid one, in
\* processed_files.
C6_ParseFailureTolerance ==
  \A g \in WellFormed :
    (Len(hist) = 1 /\ hist[1].fresh /\ hist[1].listing = {g, "bad.json"})
    => /\ ret = "True"
       /\ csv = write_csv(OneShot({g}))
       /\ g \in ProcessedFiles
       /\ "bad.json" \notin ProcessedFiles

\* C6 amended: as C6, but the well-formed file is recorded in processed_files
\* by an incremental run only; a full run writes no state file.
C6_ParseFailureToleranceByMode ==
  \A g \in WellFormed :
    (Len(hist) = 1 /\ hist[1].fresh /\ hist[1].listing = {g, "bad.json"})
    => /\ ret = "True"
       /\ csv = write_csv(OneShot({g}))
       /\ hist[1].incremental => ProcessedFiles = {g}
       /\ ~hist[1].incremental => ~stateFile.exists

C6_Witness ==
  /\ Len(hist) = 1 /\ hist[1].incremental
  /\ hist[1].listing = {"a.json", "bad.json"}
  /\ ret = "True" /\ csv.exists /\ stateFile.exists

\* The second-pass try block of file f ends in its except branch.
Raises(f) == ~ProcessNewFile(EmptyTable, f).ok

\* C7: a file whose processing raises contributes nothing to the table of
\* that run, and the other files of the batch are processed: a run that
\* starts from an empty table ends with the table of its non-failing files.
C7_FailedFileContributesNothing ==
  ( /\ hist # <<>>
    /\ LastRun.new_files # {}
    /\ LastRun.fresh \/ ~LastRun.incremental )
  => TableView(by_minute)
       = TableView(OneShot({f \in LastRun.listing : ~Raises(f)}))

HasNonStrMessage(listing) ==
  \E f \in listing :
    \E i \in 1..Len(ReadJson(f).message_counts) :
      \E j \in 1..Len(ReadJson(f).message_counts[i].msgs) :
        ~IsStr(ReadJson(f).message_counts[i].msgs[j].message)

C9_FullReprocess ==
  [][ (RunStep /\ ~hist'[Len(hist')].incremental) =>
        LET e == hist'[Len(hist')]
        IN /\ stateFile' = stateFile
           /\ e.listing # {} =>
                /\ e.new_files = e.listing
                /\ csv' = write_csv(OneShot(e.listing)) ]_vars

C9_Witness ==
  /\ Len(hist) = 2
  /\ hist[1].incremental /\ hist[1].ret = "True" /\ hist[1].new_files # {}
  /\ ~hist[2].incremental /\ hist[2].ret = "True"
  /\ hist[2].listing \ hist[1].listing # {STATE_FILE_NAME}
  /\ ProcessedFiles # {} /\ csv.exists

\* C10: load_existing_data applied to what write_csv produces gives back the
\* minute keys with their samples, total_lines and info/warn/error/debug
\* counts, for every table a run builds.
C10_CsvRoundTrip ==
  PersistedView(load_existing_data(write_csv(by_minute))) = PersistedView(by_minute)

\* The sum of the counts that the listed message_counts entries give to m.
RECURSIVE CountIn(_, _)
CountIn(msgs, m) ==
  IF msgs = <<>> THEN 0
  ELSE (IF Head(msgs).message = m THEN Head(msgs).count ELSE 0) + CountIn(Tail(msgs), m)

RECURSIVE CountInEntries(_, _)
CountInEntries(entries, m) ==
  IF entries = <<>> THEN 0
  ELSE CountIn(Head(entries).msgs, m) + CountInEntries(Tail(entries), m)

\* The total of message m over the readable files among S.
RECURSIVE MessageTotal(_, _)
MessageTotal(S, m) ==
  IF S = {} THEN 0
  ELSE LET f == CHOOSE x \in S : TRUE
       IN (IF ReadJson(f).valid THEN CountInEntries(ReadJson(f).message_counts, m) ELSE 0)
            + MessageTotal(S \ {f}, m)

\* The messages that occur in some readable file among S.
MessagesIn(S) ==
  {m \in Messages :
     \E f \in S : ReadJson(f).valid /\
       \E i \in 1..Len(ReadJson(f).message_counts) :
         \E j \in 1..Len(ReadJson(f).message_counts[i].msgs) :
           ReadJson(f).message_counts[i].msgs[j].message = m}

RECURSIVE CommaJoined(_)
CommaJoined(ns) ==
  IF ns = <<>> THEN <<>> ELSE Comma \o StrInt(Head(ns)) \o CommaJoined(Tail(ns))

\* The text of the CSV row of minute k in table t.
RowText(t, k) == k \o CommaJoined(PersistedView(t)[k])

\* C12: the CSV a run writes is the header followed by exactly one row per
\* minute key of the table, in ascending key order, each row carrying the
\* minute's samples, total_lines, info, warn, error and debug (0 for a level
\* never observed).
C12_CsvFormat ==
  csv.exists =>
    LET rows == Tail(csv.lines)
        keys == DOMAIN by_minute
    IN /\ csv.lines[1] = Header
       /\ Len(rows) = Cardinality(keys)
       /\ \A k \in keys : \E i \in 1..Len(rows) : rows[i] = RowText(by_minute, k)
       /\ \A i, j \in 1..Len(rows) :
            i < j => \E k1, k2 \in keys :
                       /\ rows[i] = RowText(by_minute, k1)
                       /\ rows[j] = RowText(by_minute, k2)
                       /\ StrLess(k1, k2)

\* Witness for C12: a CSV with three rows, one of them for a minute with
\* warn observed and error never observed.
C12_Witness ==
  /\ csv.exists /\ Len(csv.lines) >= 4
  /\ \E k \in DOMAIN by_minute :
       by_minute[k].level_counts["warn"] > 0 /\ by_minute[k].level_counts["error"] = 0

\* The load of these CSV lines raises: some row of seven or more fields has
\* a field int() rejects.
RECURSIVE LoadRaises(_)
LoadRaises(lines) ==
  IF lines = <<>> THEN FALSE
  ELSE LET parts == Split(Strip(Head(lines)))
       IN \/ Len(parts) >= 7 /\ ~LoadFields(EmptyTable, parts, 1).ok
          \/ LoadRaises(Tail(lines))

\* The CSV on disk cannot be parsed.
CsvUnparseable == csv.exists /\ csv.lines # <<>> /\ LoadRaises(Tail(csv.lines))

\* C16: when the existing CSV is missing or cannot be parsed, an incremental
\* run starts from an empty per-minute table: no row of the corrupt file is
\* kept.
C16_UnparseableCsvGivesEmptyTable ==
  (~csv.exists \/ CsvUnparseable) => StartTable(TRUE) = EmptyTable

\* The state file is missing, is not JSON, or is JSON of another shape.
StateUnusable == stateFile \in {NoFile, InvalidStateFile, UnexpectedStateFile}

\* C15: whatever the state file holds (missing, not JSON, JSON of another
\* shape), an incremental run on an existing directory does not abort on it
\* and goes on with every listed file as a new file.
C15_UnusableStateTreatedAsEmpty ==
  [][(RunStep /\ dirExists /\ StateUnusable /\ hist'[Len(hist')].incremental)
       => hist'[Len(hist')].new_files = hist'[Len(hist')].listing]_vars

\* C13: when watch mode is interrupted, the CSV and the state file agree on
\* the well-formed files: none is counted in the CSV without being in
\* processed_files, and none is in processed_files without being counted.
C13_InterruptLeavesConsistentFiles ==
  wpc = "stopped" =>
    \A f \in WellFormed : (folds[f] > 0) <=> (f \in ProcessedFiles)

\* C14: in watch mode every well-formed file present in the directory is
\* eventually recorded in processed_files unless the loop is interrupted.
\* Stated on the runs that end: a loop that has ended for good without an
\* interrupt has left no well-formed file of the directory unrecorded.
C14_NoWellFormedFileLeftUnrecorded ==
  wpc = "crashed" => \A f \in WellFormed \cap dirFiles : f \in ProcessedFiles

\* C20: an incremental run on an existing directory that finds no file
\* outside processed_files returns success and leaves time_series.csv,
\* summary.md and the state file as they were (none is created).
C20_NoNewFilesIsNoOp ==
  [][(RunStep /\ ~StateRaises(TRUE)
        /\ hist'[Len(hist')].incremental /\ hist'[Len(hist')].dir_exists
        /\ hist'[Len(hist')].new_files = {})
       => (ret' = "True" /\ UNCHANGED <<csv, summary, stateFile>>)]_vars

\* Witness for C20: a run has just found every listed file in
\* processed_files; the state file keeps the stamp of an earlier run.
C20_Witness ==
  /\ hist # <<>> /\ LastRun.incremental /\ LastRun.new_files = {}
  /\ "a.json" \in LastRun.listing /\ "a.json" \in ProcessedFiles
  /\ ret = "True" /\ csv.exists /\ summary.exists
  /\ stateFile.last_update < now

\* keyword occurs in msg as a substring, letter case apart.
OccursIgnoringCase(keyword, msg) ==
  \E off \in 0..(Len(msg) - Len(keyword)) :
    \A j \in 1..Len(keyword) : LowerChar(msg[off + j]) = LowerChar(keyword[j])

\* The items of crit_items in which the keyword occurs.
Matching(keyword) ==
  {i \in 1..Len(crit_items) : OccursIgnoringCase(keyword, crit_items[i].msg)}

\* The lines written under the keyword (none when it has no block).
LinesUnder(keyword) ==
  LET bs == SelectSeq(crit_section.blocks, LAMBDA b : b.keyword = keyword)
  IN IF bs = <<>> THEN <<>> ELSE bs[1].lines

\* C19: in the Critical Patterns section every line under a keyword is a
\* message in which the keyword occurs, letter case apart; a keyword has a
\* block exactly when some message matches it, with at most 5 lines, which
\* are its matching messages of highest count; the "no critical patterns"
\* line is written exactly when no message matches any keyword.
C19_CriticalPatterns ==
  crit_section.written =>
    /\ \A k \in 1..Len(critical_keywords) :
         LET kw == critical_keywords[k]
             lines == LinesUnder(kw)
             matching == Matching(kw)
             listed == {i \in matching :
                          \E n \in 1..Len(lines) : lines[n] = CriticalLine(crit_items[i])}
         IN /\ Cardinality({b \in 1..Len(crit_section.blocks) :
                              crit_section.blocks[b].keyword = kw})
                 = (IF matching = {} THEN 0 ELSE 1)
            /\ Len(lines) = Min(CriticalLimit, Cardinality(matching))
            /\ Cardinality(listed) = Len(lines)
            /\ \A i \in listed, j \in matching \ listed :
                 crit_items[i].count >= crit_items[j].count
    /\ crit_section.none_detected
         <=> (\A k \in 1..Len(critical_keywords) : Matching(critical_keywords[k]) = {})

\* Witness for C19: more than five messages match 'error', five are listed,
\* one of them matching only with the letter case set aside, and a message
\* of lower count is left out.
C19_Witness ==
  /\ crit_section.written
  /\ Cardinality(Matching(critical_keywords[2])) > CriticalLimit
  /\ Len(LinesUnder(critical_keywords[2])) = CriticalLimit
  /\ \E n \in 1..CriticalLimit :
       LinesUnder(critical_keywords[2])[n].text = MessagePool[3]
  /\ \E i \in Matching(critical_keywords[2]) :
       /\ crit_items[i].count = 1
       /\ \A n \in 1..CriticalLimit :
            LinesUnder(critical_keywords[2])[n] # CriticalLine(crit_items[i])

\* C17: ensure_token without force_login returns the cached access token,
\* with no refresh request and no browser login, exactly when a session is
\* cached and still valid; otherwise it asks for a refresh exactly when the
\* cached session has a refresh_token; and it starts the browser login
\* exactly when the cache was not used and no refresh succeeded.
C17_SourcesInOrder ==
  \A n \in 1..Len(calls) :
    (calls[n].cmd = "ensure" /\ ~calls[n].force_login) =>
      LET c == calls[n]
          valid == c.before.exists /\ _is_token_valid(c.before.data, c.time)
      IN /\ c.used_cache <=> valid
         /\ c.used_cache =>
              /\ ~c.refresh_requested /\ ~c.login_started
              /\ c.result = c.before.data.access_token /\ c.result > 0
         /\ ~valid =>
              (c.refresh_requested <=> (c.before.exists /\ c.before.data.refresh_token # 0))
         /\ c.login_started <=>
              (~valid /\ (~c.refresh_requested \/ c.refresh_outcome # "ok"))

\* The session file a command left behind.
FileAfter(n) == IF n = Len(calls) THEN sessionFile ELSE calls[n + 1].before

\* C18: logout leaves no cached session, whether or not there was one; the
\* ensure_token that follows a logout asks for no refresh and goes to the
\* browser login, and what it returns is no token issued before the logout.
C18_LogoutForgetsSession ==
  \A n \in 1..Len(calls) :
    calls[n].cmd = "logout" =>
      /\ FileAfter(n) = NoSession
      /\ (n < Len(calls) /\ calls[n + 1].cmd = "ensure") =>
           /\ ~calls[n + 1].used_cache /\ ~calls[n + 1].refresh_requested
           /\ calls[n + 1].login_started
           /\ calls[n + 1].result = 0 \/ calls[n + 1].result > calls[n].issued

\* Witness for C18: logout removed a cached session that was still valid
\* and had a refresh token, and the next ensure_token logged in and got a
\* new token.
C18_Witness ==
  /\ Len(calls) = 2
  /\ calls[1].cmd = "logout" /\ calls[1].before.exists
  /\ calls[1].before.data.refresh_token # 0
  /\ _is_token_valid(calls[1].before.data, calls[2].time)
  /\ calls[2].cmd = "ensure" /\ ~calls[2].force_login
  /\ calls[2].login_started /\ calls[2].result = 2

\* The minute keys a summary file reports in its level_counts.
MinuteKeysOf(name) ==
  {MinuteKey(Files[name].level_counts[i].ts) : i \in 1..Len(Files[name].level_counts)}

\* C21: after a first run over well-formed files, the samples counter of
\* every minute bucket is the number of new files that report that minute
\* key: each file counts once per minute key, also when several of its
\* timestamps fall into that minute.
C21_SamplesOncePerFilePerMinute ==
  (Len(hist) = 1 /\ hist[1].fresh /\ hist[1].ret = "True"
     /\ hist[1].new_files \subseteq WellFormed) =>
    \A k \in DOMAIN by_minute :
      by_minute[k].samples =
        Cardinality({f \in hist[1].new_files : k \in MinuteKeysOf(f)})

\* The POSTs whose session a handler put into the shared result.
Stored == {p \in PostIds : flow.posts[p].wrote = "session"}

\* A POST to /callback with the state of this login and a JSON payload
\* whose session has a non-empty access_token.
ValidCallback(req) ==
  /\ req.path = CallbackPath
  /\ req.state = ExpectedState
  /\ req.body.valid /\ req.body.dict
  /\ \/ req.body.session.dict /\ req.body.session.access_token # 0
     \/ req.body.session = JsonNull /\ req.body.access_token # 0

\* C22: the session file changes during a login only when _perform_login
\* returns a session, and the session saved is that of a valid callback
\* POST; a POST with a wrong path, a wrong state, invalid JSON or no
\* access_token never puts a session into the result.
C22_OnlyValidCallbackSaves ==
  /\ sessionFile # flow.before => flow.outcome = "ok"
  /\ flow.outcome = "ok" =>
       /\ sessionFile.exists
       /\ \E p \in Stored :
            /\ ValidCallback(flow.posts[p].req)
            /\ sessionFile.data.access_token
                 = ExtractSession(flow.posts[p].req.body).access_token
  /\ \A p \in Stored : ValidCallback(flow.posts[p].req)
  /\ flow.result.session.dict => flow.result.session.access_token # 0

\* Witness for C22: a POST whose session object has no access_token (the
\* token sits beside it) was turned away, a later POST was accepted, and
\* the login saved the session of that one over the cached one.
C22_Witness ==
  /\ flow.outcome = "ok"
  /\ flow.before.exists
  /\ flow.posts[1].route = "missing_token" /\ flow.posts[1].req.body.access_token # 0
  /\ flow.posts[2].route = "accepted"
  /\ sessionFile.data.access_token = 3

\* C23 (1): when the main thread reads the result after a wrong-state POST
\* has been handled, the login does not return a session.
C23_MismatchAborts == ~(flow.mismatch_handled /\ flow.pc \in {"get_session", "save", "replace", "returned"})

\* C23 (2): the result never holds both an error and a session.
C23_ErrorOrSession == ~(flow.result.error /\ flow.result.session.dict)

\* C23: under every interleaving of the handler threads, a handled
\* wrong-state POST aborts the login, and the result never holds both an
\* error and a session.
C23_MismatchAbortsLogin == C23_MismatchAborts /\ C23_ErrorOrSession

\* C24: a command replaces the session file only by a session that
\* contains an access_token: a login that fails and a refresh that fails
\* or whose response has no access_token leave the cached file as it was.
C24_OnlyCompleteSessionsSaved ==
  \A n \in 1..Len(calls) :
    calls[n].cmd = "ensure" =>
      /\ FileAfter(n) # calls[n].before =>
           FileAfter(n).exists /\ FileAfter(n).data.access_token # 0
      /\ calls[n].result = 0 => FileAfter(n) = calls[n].before

\* When a cached session runs out: expires_at, or fetched_at + expires_in
\* when expires_at is absent; None without expiry information.
ExpiryOf(session) ==
  IF session.expires_at # None THEN session.expires_at
  ELSE IF session.expires_in # 0 /\ session.fetched_at # 0
    THEN session.fetched_at + session.expires_in
  ELSE None

\* C25: ensure_token takes the cached session for valid exactly when its
\* expiry time minus the 90-second skew is strictly later than the current
\* time, never without expiry information; a cached token it returns
\* expires more than 90 seconds later.
C25_ValidityWithSkew ==
  \A n \in 1..Len(calls) :
    (calls[n].cmd = "ensure" /\ ~calls[n].force_login) =>
      LET c == calls[n]
      IN /\ c.used_cache <=>
              /\ c.before.exists
              /\ ExpiryOf(c.before.data) # None
              /\ ExpiryOf(c.before.data) - TOKEN_SKEW_SECONDS > c.time
         /\ (c.used_cache /\ c.result # 0) =>
              /\ c.result = c.before.data.access_token
              /\ ExpiryOf(c.before.data) > c.time + TOKEN_SKEW_SECONDS

\* Witness for C25: a cached token was returned 150 seconds before its
\* expiry, and 60 seconds later, at exactly expiry minus the skew, the same
\* session without expires_at no longer counted as valid.
C25_Witness ==
  /\ Len(calls) = 2
  /\ calls[1].cmd = "ensure" /\ calls[1].used_cache /\ calls[1].result = 1
  /\ calls[1].before.data.expires_at = None
  /\ calls[2].cmd = "ensure" /\ ~calls[2].force_login
  /\ calls[2].before = calls[1].before
  /\ calls[2].time = ExpiryOf(calls[2].before.data) - TOKEN_SKEW_SECONDS
  /\ ~calls[2].used_cache /\ calls[2].refresh_requested

RECURSIVE CounterTotal(_)
CounterTotal(counter) ==
  IF counter = <<>> THEN 0 ELSE Head(counter).count + CounterTotal(Tail(counter))

RECURSIVE TotalOver(_, _)
TotalOver(counts, minutes) ==
  IF minutes = {} THEN 0
  ELSE LET m == CHOOSE x \in minutes : TRUE
       IN CounterTotal(counts[m]) + TotalOver(counts, minutes \ {m})

\* C26: in the summary summarise_logs returns, total_lines is parsed plus
\* failed_to_parse, the level counts of all minutes add up to parsed, and
\* each minute's message list has at most 20 entries whose counts add up to
\* at most the minute's level counts.
C26_SummaryInvariants ==
  summ.pc = "done" =>
    LET s == summ.summary
    IN /\ s.meta.total_lines = s.meta.parsed + s.meta.failed_to_parse
       /\ TotalOver(s.level_counts, DOMAIN s.level_counts) = s.meta.parsed
       /\ \A m \in DOMAIN s.message_counts :
            /\ Len(s.message_counts[m]) <= 20
            /\ m \in DOMAIN s.level_counts
            /\ CounterTotal(s.message_counts[m]) <= CounterTotal(s.level_counts[m])

\* Witness for C26: a log of which one line failed to parse and whose
\* minute 07:50 had 21 different messages: 20 are listed, and their counts
\* add up to less than the minute's level counts.
C26_Witness ==
  /\ summ.pc = "done"
  /\ summ.summary.meta.failed_to_parse = 1
  /\ \E m \in DOMAIN summ.summary.message_counts :
       /\ Len(summ.message_counts[m]) = 21
       /\ Len(summ.summary.message_counts[m]) = 20
       /\ CounterTotal(summ.summary.message_counts[m])
            < CounterTotal(summ.summary.level_counts[m])

====
